---- MODULE Spec2Model ----
(***************************************************************************)
(* Model of oauth_dcr/cli.py: OAuth2 dynamic client registration.          *)
(* One invocation of main(): parse the redirect URIs, discover the         *)
(* registration endpoint with one GET, register the client with one POST.  *)
(* Strings that the code inspects character by character (the redirect-URI *)
(* option) are sequences of one-character strings; response bodies are     *)
(* wire texts that JsonLoads turns into parsed documents.                  *)
(***************************************************************************)
EXTENDS Integers, Sequences, FiniteSets, TLC

(* ------------------------------ bounds --------------------------------- *)
\* longest --redirect-uris option value of an invocation
MaxLen == 3
\* longest --redirect-uris value of the parsing-only specification
MaxParseLen == 4
\* most redirect URIs in a direct call of register_client
MaxUris == 2
\* longest redirect URI in a direct call of register_client
MaxUriLen == 2
\* redirects the metadata GET follows before the client gives up with
\* TooManyRedirects, a RequestError (20 in httpx)
MaxRedirects == 2

(* --------------------------- character data ---------------------------- *)
\* characters str.strip() removes (those that occur in the inputs)
Whitespace == {" ", "\t"}
\* characters of the --redirect-uris values of an invocation
MainAlphabet == {"a", ",", " "}
\* characters of the --redirect-uris values of the parsing-only specification
ParseAlphabet == {"a", "b", ",", " ", "\t"}

StringsUpTo(alphabet, n) == UNION {[1..k -> alphabet] : k \in 0..n}

(* ------------------- redirect-URI parsing (main, l.155) ---------------- *)
RECURSIVE LStrip(_)
LStrip(s) ==
    IF s = <<>> THEN <<>>
    ELSE IF Head(s) \in Whitespace THEN LStrip(Tail(s)) ELSE s

RECURSIVE RStrip(_)
RStrip(s) ==
    IF s = <<>> THEN <<>>
    ELSE IF s[Len(s)] \in Whitespace THEN RStrip(SubSeq(s, 1, Len(s) - 1)) ELSE s

\* a strip that leaves the trailing whitespace in place
Strip_LeadingOnly(s) == LStrip(s)

\* str.strip(): leading and trailing whitespace removed
Strip(s) == RStrip(LStrip(s))

\* str.split(","): the pieces between the commas, empty pieces included
RECURSIVE Split(_)
Split(s) ==
    IF s = <<>> THEN << <<>> >>
    ELSE IF Head(s) = "," THEN << <<>> >> \o Split(Tail(s))
    ELSE LET r == Split(Tail(s))
         IN  << <<Head(s)>> \o Head(r) >> \o Tail(r)

\* a filter that tests the piece before it is stripped ("if uri")
RECURSIVE StripNonBlank_FilterUnstripped(_)
StripNonBlank_FilterUnstripped(pieces) ==
    IF pieces = <<>> THEN <<>>
    ELSE IF Head(pieces) # <<>>
         THEN <<Strip(Head(pieces))>> \o StripNonBlank_FilterUnstripped(Tail(pieces))
         ELSE StripNonBlank_FilterUnstripped(Tail(pieces))

\* [uri.strip() for uri in pieces if uri.strip()]
RECURSIVE StripNonBlank(_)
StripNonBlank(pieces) ==
    IF pieces = <<>> THEN <<>>
    ELSE IF Strip(Head(pieces)) # <<>>
         THEN <<Strip(Head(pieces))>> \o StripNonBlank(Tail(pieces))
         ELSE StripNonBlank(Tail(pieces))

ParseRedirectUris(s) == StripNonBlank(Split(s))

(* ------------- the well-known URL (discover, l.28-34) ------------------ *)
\* URLs are sequences of one-character strings; the path that urljoin
\* appends is kept as one element
Letters == {"h", "t", "p", "s"}
Digits == {"8"}
\* urllib.parse.scheme_chars
SchemeChars == Letters \cup Digits \cup {"+", "-", "."}
Http == <<"h", "t", "t", "p">>
Https == <<"h", "t", "t", "p", "s">>
Shttp == <<"s", "h", "t", "t", "p">>
\* urllib.parse.uses_relative, the members that the identifiers can spell
UsesRelative == {Http, Https, Shttp}
WellKnownPath == "/.well-known/oauth-authorization-server"

\* str.find(c): the first position of c in s, 0 when there is none
Find(s, c) ==
    IF \E i \in 1..Len(s) : s[i] = c
    THEN CHOOSE i \in 1..Len(s) : s[i] = c /\ \A j \in 1..(i - 1) : s[j] # c
    ELSE 0

\* urlparse(url).scheme: the text before the first colon when it starts with
\* a letter and is made of scheme characters, else empty
UrlScheme(url) ==
    LET i == Find(url, ":") IN
    IF i > 1 /\ url[1] \in Letters /\ \A j \in 1..(i - 1) : url[j] \in SchemeChars
    THEN SubSeq(url, 1, i - 1)
    ELSE <<>>

\* urlparse(url).netloc: after "//", up to the first "/", "?" or "#"
UrlNetloc(url) ==
    LET sch  == UrlScheme(url)
        rest == IF sch = <<>> THEN url ELSE SubSeq(url, Len(sch) + 2, Len(url))
    IN  IF Len(rest) >= 2 /\ rest[1] = "/" /\ rest[2] = "/"
        THEN LET loc  == SubSeq(rest, 3, Len(rest))
                 stop == {i \in 1..Len(loc) : loc[i] \in {"/", "?", "#"}}
             IN  IF stop = {} THEN loc
                 ELSE SubSeq(loc, 1, (CHOOSE i \in stop : \A j \in stop : i <= j) - 1)
        ELSE <<>>

\* l.29-31: an identifier urlparse finds no scheme in gets "https://"
NormalizeServer(server) ==
    IF UrlScheme(server) = <<>> THEN Https \o <<":", "/", "/">> \o server ELSE server

\* l.34: urljoin(base, "/.well-known/oauth-authorization-server"); a base
\* whose scheme is not in uses_relative is dropped and the path returned
UrlJoinWellKnown(base) ==
    IF base = <<>> \/ UrlScheme(base) \notin UsesRelative
    THEN <<WellKnownPath>>
    ELSE UrlScheme(base) \o <<":", "/", "/">> \o UrlNetloc(base) \o <<WellKnownPath>>

\* l.28-34
WellKnownUrl(server) == UrlJoinWellKnown(NormalizeServer(server))

\* httpx has a transport for http and https URLs only; a GET to any other
\* URL fails with a RequestError (UnsupportedProtocol)
IsHttpUrl(url) == UrlScheme(url) \in {Http, Https}

(* ------------------------- Python / JSON values ------------------------ *)
Str(x)  == [type |-> "string",  v |-> x]
Num(x)  == [type |-> "number",  v |-> x]
Bool(x) == [type |-> "boolean", v |-> x]
Arr(x)  == [type |-> "array",   v |-> x]
Obj(x)  == [type |-> "object",  v |-> x]
\* Python None, which is also what JSON null loads to
None    == [type |-> "null",    v |-> "null"]
\* a key that a dict does not have
Absent  == [type |-> "absent",  v |-> ""]
\* a local variable not assigned yet
Unset   == [type |-> "unset",   v |-> ""]

\* truth value of a Python object, as "if not x" tests it
Truthy(x) ==
    CASE x.type = "string"  -> x.v # ""
      [] x.type = "number"  -> x.v # "0"
      [] x.type = "boolean" -> x.v = "true"
      [] x.type = "array"   -> x.v # "[]"
      [] x.type = "object"  -> x.v # "{}"
      [] OTHER              -> FALSE

\* keys the documents of the model use
Keys == {"issuer", "registration_endpoint", "client_id", "client_secret",
         "error", "error_description"}

NoMembers == [k \in Keys |-> Absent]
\* a parsed JSON object with the given members
Dict(f) == [type |-> "object", v |-> "",
            members |-> [k \in Keys |-> IF k \in DOMAIN f THEN f[k] ELSE Absent]]
\* a parsed JSON document that is not an object
NonDict(t, x) == [type |-> t, v |-> x, members |-> NoMembers]
\* response.json() raising json.JSONDecodeError
JSONDecodeError == [type |-> "JSONDecodeError", v |-> "", members |-> NoMembers]

\* dict.get(key, default)
DictGet(d, key, default) ==
    IF d.members[key] = Absent THEN default ELSE d.members[key]

(* ------------------------- response bodies ----------------------------- *)
\* bodies a metadata endpoint answers with
MetadataTexts ==
    { "<html>not json</html>",
      "{}",
      "{\"issuer\":\"https://as.example\"}",
      "{\"registration_endpoint\":\"https://as.example/register\"}",
      "{\"registration_endpoint\":\"/register\"}",
      "{\"registration_endpoint\":\"\"}",
      "{\"registration_endpoint\":null}",
      "{\"registration_endpoint\":0}",
      "{\"registration_endpoint\":5}",
      "{\"registration_endpoint\":false}",
      "{\"registration_endpoint\":true}",
      "{\"registration_endpoint\":[]}",
      "{\"registration_endpoint\":[\"x\"]}",
      "{\"registration_endpoint\":{}}",
      "[]",
      "null" }

\* bodies a registration endpoint answers with
RegistrationTexts ==
    { "{\"client_id\":\"abc123\"}",
      "{\"client_id\":\"abc123\",\"client_secret\":\"s3cret\"}",
      "{\"error\":\"invalid_redirect_uri\",\"error_description\":\"bad uri\"}",
      "{\"error\":\"invalid_client_metadata\"}",
      "{}",
      "[]",
      "null",
      "oops",
      "" }

\* response.json(): the parsed document of a body, or JSONDecodeError
JsonLoads(text) ==
    CASE text = "{}" -> Dict(<<>>)
      [] text = "{\"issuer\":\"https://as.example\"}" ->
            Dict([issuer |-> Str("https://as.example")])
      [] text = "{\"registration_endpoint\":\"https://as.example/register\"}" ->
            Dict([registration_endpoint |-> Str("https://as.example/register")])
      [] text = "{\"registration_endpoint\":\"/register\"}" ->
            Dict([registration_endpoint |-> Str("/register")])
      [] text = "{\"registration_endpoint\":\"\"}" ->
            Dict([registration_endpoint |-> Str("")])
      [] text = "{\"registration_endpoint\":null}" ->
            Dict([registration_endpoint |-> None])
      [] text = "{\"registration_endpoint\":0}" ->
            Dict([registration_endpoint |-> Num("0")])
      [] text = "{\"registration_endpoint\":5}" ->
            Dict([registration_endpoint |-> Num("5")])
      [] text = "{\"registration_endpoint\":false}" ->
            Dict([registration_endpoint |-> Bool("false")])
      [] text = "{\"registration_endpoint\":true}" ->
            Dict([registration_endpoint |-> Bool("true")])
      [] text = "{\"registration_endpoint\":[]}" ->
            Dict([registration_endpoint |-> Arr("[]")])
      [] text = "{\"registration_endpoint\":[\"x\"]}" ->
            Dict([registration_endpoint |-> Arr("[\"x\"]")])
      [] text = "{\"registration_endpoint\":{}}" ->
            Dict([registration_endpoint |-> Obj("{}")])
      [] text = "{\"client_id\":\"abc123\"}" ->
            Dict([client_id |-> Str("abc123")])
      [] text = "{\"client_id\":\"abc123\",\"client_secret\":\"s3cret\"}" ->
            Dict([client_id |-> Str("abc123"), client_secret |-> Str("s3cret")])
      [] text = "{\"error\":\"invalid_redirect_uri\",\"error_description\":\"bad uri\"}" ->
            Dict([error |-> Str("invalid_redirect_uri"),
                  error_description |-> Str("bad uri")])
      [] text = "{\"error\":\"invalid_client_metadata\"}" ->
            Dict([error |-> Str("invalid_client_metadata")])
      [] text = "[]"   -> NonDict("array", "[]")
      [] text = "null" -> NonDict("null", "null")
      [] OTHER -> JSONDecodeError

(* ------------------------------ responses ------------------------------ *)
\* final statuses of the metadata GET (a redirect that is followed is not
\* final; 304 has no Location to follow)
DiscoveryStatuses == {200, 201, 304, 404}
\* statuses of the registration POST, which follows no redirect
RegistrationStatuses == {200, 201, 302, 400}

\* an httpx.RequestError raised instead of a response
RequestError == [kind |-> "RequestError", status |-> 0, text |-> ""]
Response(status, text) == [kind |-> "response", status |-> status, text |-> text]
NoResponse == [kind |-> "none", status |-> 0, text |-> ""]

DiscoveryResponses ==
    {RequestError} \cup {Response(st, t) : st \in DiscoveryStatuses, t \in MetadataTexts}
RegistrationResponses ==
    {RequestError} \cup {Response(st, t) : st \in RegistrationStatuses, t \in RegistrationTexts}

\* a discover that never calls raise_for_status()
IsSuccess_Unchecked(status) == TRUE

\* a raise_for_status() that raises for 4xx and 5xx answers only
IsSuccess_Below400(status) == status < 400

\* httpx Response.is_success, which raise_for_status() tests
IsSuccess(status) == status \in 200..299

(* ------------- discover_registration_endpoint (l.38-64) ---------------- *)
\* a lookup that raises KeyError when the key is missing
\* (metadata["registration_endpoint"])
DiscoverMetadata_KeyError(metadata) ==
    IF metadata.type # "object"
    THEN [ret |-> Unset, branch |-> "AttributeError",
          out |-> <<"metadata_retrieved">>, exc |-> "AttributeError"]
    ELSE IF metadata.members["registration_endpoint"] = Absent
    THEN [ret |-> Unset, branch |-> "KeyError",
          out |-> <<"metadata_retrieved">>, exc |-> "KeyError"]
    ELSE LET endpoint == metadata.members["registration_endpoint"] IN
         IF ~Truthy(endpoint)
         THEN [ret |-> None, branch |-> "NotSupported",
               out |-> <<"metadata_retrieved", "warning_not_supported">>,
               exc |-> "none"]
         ELSE [ret |-> endpoint, branch |-> "Endpoint",
               out |-> <<"metadata_retrieved">>, exc |-> "none"]

\* a discover that resolves a relative endpoint against the server
DiscoverMetadata_Resolved(metadata) ==
    IF metadata.type # "object"
    THEN [ret |-> Unset, branch |-> "AttributeError",
          out |-> <<"metadata_retrieved">>, exc |-> "AttributeError"]
    ELSE LET endpoint == DictGet(metadata, "registration_endpoint", None) IN
         IF ~Truthy(endpoint)
         THEN [ret |-> None, branch |-> "NotSupported",
               out |-> <<"metadata_retrieved", "warning_not_supported">>,
               exc |-> "none"]
         ELSE [ret |-> IF endpoint = Str("/register")
                       THEN Str("https://as.example/register") ELSE endpoint,
               branch |-> "Endpoint",
               out |-> <<"metadata_retrieved">>, exc |-> "none"]

\* l.44-53: what discover does with the parsed metadata: the value it
\* returns (ret), the branch that produced it, the lines it prints (out) and
\* the exception that leaves it uncaught (exc)
DiscoverMetadata(metadata) ==
    IF metadata.type # "object"
    THEN \* metadata.get on a list or on None
         [ret |-> Unset, branch |-> "AttributeError",
          out |-> <<"metadata_retrieved">>, exc |-> "AttributeError"]
    ELSE LET endpoint == DictGet(metadata, "registration_endpoint", None) IN
         IF ~Truthy(endpoint)
         THEN [ret |-> None, branch |-> "NotSupported",
               out |-> <<"metadata_retrieved", "warning_not_supported">>,
               exc |-> "none"]
         ELSE [ret |-> endpoint, branch |-> "Endpoint",
               out |-> <<"metadata_retrieved">>, exc |-> "none"]

\* l.40-64: what discover does with the outcome of its GET
DiscoverResult(resp) ==
    IF resp.kind = "RequestError"
    THEN [ret |-> None, branch |-> "ConnectionError",
          out |-> <<"error_connect_authorization_server">>, exc |-> "none"]
    ELSE IF ~IsSuccess(resp.status)
    THEN [ret |-> None, branch |-> "MetadataFetchError",
          out |-> <<"error_retrieve_metadata_http_status">>, exc |-> "none"]
    ELSE LET metadata == JsonLoads(resp.text) IN
         IF metadata = JSONDecodeError
         THEN [ret |-> None, branch |-> "InvalidMetadataError",
               out |-> <<"error_invalid_json_authorization_server">>, exc |-> "none"]
         ELSE DiscoverMetadata(metadata)

(* -------------------- register_client (l.67-127) ----------------------- *)
\* a request body that registers a public client
RegistrationRequest_PublicClient(name, uris) ==
    [client_name |-> name,
     redirect_uris |-> uris,
     grant_types |-> <<"authorization_code">>,
     response_types |-> <<"code">>,
     token_endpoint_auth_method |-> "none"]

\* a request body whose URIs are stripped and the blank ones left out
RegistrationRequest_Trimmed(name, uris) ==
    [client_name |-> name,
     redirect_uris |-> StripNonBlank(uris),
     grant_types |-> <<"authorization_code">>,
     response_types |-> <<"code">>,
     token_endpoint_auth_method |-> "client_secret_basic"]

\* the request body of l.79-85
RegistrationRequest(name, uris) ==
    [client_name |-> name,
     redirect_uris |-> uris,
     grant_types |-> <<"authorization_code">>,
     response_types |-> <<"code">>,
     token_endpoint_auth_method |-> "client_secret_basic"]

NoRegistrationRequest ==
    [client_name |-> "", redirect_uris |-> <<>>, grant_types |-> <<>>,
     response_types |-> <<>>, token_endpoint_auth_method |-> ""]

NoPost == [url |-> "", json |-> NoRegistrationRequest, content_type |-> ""]

\* a document not returned yet
NoResult == [type |-> "unset", v |-> "", members |-> NoMembers]
\* nothing reported about a failed registration
NoReport == [status |-> 0, error |-> Unset, error_description |-> Unset, raw |-> ""]

\* a status test that takes every 2xx answer for a success
IsCreated_Any2xx(status) == status \in 200..299

\* l.99: response.status_code == 201
IsCreated(status) == status = 201

\* a success that keeps the client_id of the answer only
RegisterCreated_ClientIdOnly(data) ==
    [ret |-> IF data.type = "object"
             THEN Dict([client_id |-> data.members["client_id"]]) ELSE data,
     branch |-> "Registered", report |-> NoReport,
     out |-> <<"client_registered", "registration_response">>, exc |-> "none"]

\* l.100-104, after response.json() has parsed the body
RegisterCreated(data) ==
    [ret |-> data, branch |-> "Registered", report |-> NoReport,
     out |-> <<"client_registered", "registration_response">>, exc |-> "none"]

\* an error branch without the sys.exit(1) of l.120
RegisterError_NoExit(status, text, data) ==
    IF data = JSONDecodeError
    THEN [ret |-> NoResult, branch |-> "ErrorRaw",
          report |-> [status |-> status, error |-> Unset,
                      error_description |-> Unset, raw |-> text],
          out |-> <<"registration_failed_http", "response_text">>,
          exc |-> "none"]
    ELSE IF data.type # "object"
    THEN [ret |-> NoResult, branch |-> "AttributeError", report |-> NoReport,
          out |-> <<>>, exc |-> "AttributeError"]
    ELSE [ret |-> NoResult, branch |-> "ErrorJson",
          report |-> [status |-> status,
                      error |-> DictGet(data, "error", Str("unknown_error")),
                      error_description |->
                          DictGet(data, "error_description",
                                  Str("No description provided")),
                      raw |-> ""],
          out |-> <<"registration_failed_error", "description",
                    "http_status", "error_response">>,
          exc |-> "none"]

\* l.105-120: an answer that is not 201
RegisterError(status, text, data) ==
    IF data = JSONDecodeError
    THEN [ret |-> NoResult, branch |-> "ErrorRaw",
          report |-> [status |-> status, error |-> Unset,
                      error_description |-> Unset, raw |-> text],
          out |-> <<"registration_failed_http", "response_text">>,
          exc |-> "SystemExit"]
    ELSE IF data.type # "object"
    THEN \* error_data.get on a list or on None
         [ret |-> NoResult, branch |-> "AttributeError", report |-> NoReport,
          out |-> <<>>, exc |-> "AttributeError"]
    ELSE [ret |-> NoResult, branch |-> "ErrorJson",
          report |-> [status |-> status,
                      error |-> DictGet(data, "error", Str("unknown_error")),
                      error_description |->
                          DictGet(data, "error_description",
                                  Str("No description provided")),
                      raw |-> ""],
          out |-> <<"registration_failed_error", "description",
                    "http_status", "error_response">>,
          exc |-> "SystemExit"]

\* a register_client whose handler of l.125-127 prints and returns
RegisterResult_InvalidJsonReturns(resp) ==
    IF resp.kind = "RequestError"
    THEN [ret |-> NoResult, branch |-> "ConnectionError", report |-> NoReport,
          out |-> <<"error_connect_registration_endpoint">>, exc |-> "SystemExit"]
    ELSE LET data == JsonLoads(resp.text) IN
         IF IsCreated(resp.status)
         THEN IF data = JSONDecodeError
              THEN [ret |-> NonDict("null", "null"), branch |-> "InvalidJson",
                    report |-> NoReport,
                    out |-> <<"error_invalid_json_registration_endpoint">>,
                    exc |-> "none"]
              ELSE RegisterCreated(data)
         ELSE RegisterError(resp.status, resp.text, data)

\* l.99-127: what register_client does with the outcome of its POST
RegisterResult(resp) ==
    IF resp.kind = "RequestError"
    THEN [ret |-> NoResult, branch |-> "ConnectionError", report |-> NoReport,
          out |-> <<"error_connect_registration_endpoint">>, exc |-> "SystemExit"]
    ELSE LET data == JsonLoads(resp.text) IN
         IF IsCreated(resp.status)
         THEN IF data = JSONDecodeError
              THEN [ret |-> NoResult, branch |-> "InvalidJson", report |-> NoReport,
                    out |-> <<"error_invalid_json_registration_endpoint">>,
                    exc |-> "SystemExit"]
              ELSE RegisterCreated(data)
         ELSE RegisterError(resp.status, resp.text, data)

\* URLs httpx has a transport for; any other string makes the request fail
\* with a RequestError (UnsupportedProtocol) before a response exists
HasHttpScheme(url) == url \in {"https://as.example/register"}

(* ------------------------------ the state ------------------------------ *)
VARIABLES
    auth_server,            \* --auth-server
    client_name,            \* --client-name
    redirect_uris,          \* --redirect-uris, a sequence of characters
    redirect_uri_list,      \* main's parsed list (l.155)
    pc,                     \* where the invocation is
    outcome,                \* how it ended ("none" while it runs)
    registration_endpoint,  \* main's local, the value discover returned
    well_known_url,         \* the URL of the metadata GET (l.34)
    getResponse,            \* outcome of the metadata GET
    registration_request,   \* register_client's local (l.79)
    postRequest,            \* the POST that was sent
    postResponse,           \* outcome of the POST
    result,                 \* the value register_client returned
    report,                 \* what was printed about a failed registration
    console,                \* the lines printed, in order
    exc,                    \* the exception that ended the process
    exitCode,               \* -1 while the process runs
    getCount,               \* GET requests sent, redirect hops included
    redirects,              \* redirects the GET has followed
    postCount,              \* POST requests handed to the client
    openClients,            \* httpx.AsyncClient contexts entered and not left
    loop                    \* the asyncio event loop of main

vars == <<auth_server, client_name, redirect_uris, redirect_uri_list, pc, outcome,
          registration_endpoint, well_known_url, getResponse, registration_request,
          postRequest, postResponse, result, report, console, exc, exitCode,
          getCount, redirects, postCount, openClients, loop>>

inputs == <<auth_server, client_name, redirect_uris>>

\* a bare host, a host with a path, a host with a port, a full URL
BareHost == <<"h">>
HostPath == <<"h", "/", "p">>
HostPort == <<"h", ":", "8">>
HttpsHost == <<"h", "t", "t", "p", "s", ":", "/", "/", "h">>
AuthServers == {BareHost, HostPath, HostPort, HttpsHost}
ClientNames == {"My App", ""}

\* the state of a process that has not run a line of main yet
Fresh ==
    /\ redirect_uri_list = <<>>
    /\ outcome = "none"
    /\ registration_endpoint = Unset
    /\ well_known_url = <<>>
    /\ getResponse = NoResponse
    /\ registration_request = NoRegistrationRequest
    /\ postRequest = NoPost
    /\ postResponse = NoResponse
    /\ result = NoResult
    /\ report = NoReport
    /\ console = <<>>
    /\ exc = "none"
    /\ exitCode = -1
    /\ getCount = 0
    /\ redirects = 0
    /\ postCount = 0
    /\ openClients = 0
    /\ loop = "none"

Init ==
    /\ auth_server \in AuthServers
    /\ client_name \in ClientNames
    /\ redirect_uris \in StringsUpTo(MainAlphabet, MaxLen)
    /\ pc = "main"
    /\ Fresh

\* the process ends: sys.exit(code) or an uncaught exception (status 1)
Exit(how, code, e) ==
    /\ pc' = "exit"
    /\ outcome' = how
    /\ exitCode' = code
    /\ exc' = e

(* main, l.154-177: parse the option, refuse an empty list, else create the
   loop and run discover up to its GET *)
Main ==
    /\ pc = "main"
    /\ redirect_uri_list' = ParseRedirectUris(redirect_uris)
    /\ IF redirect_uri_list' = <<>>
       THEN /\ console' = console \o <<"error_no_redirect_uri">>
            /\ Exit("ValidationRejected", 1, "SystemExit")
            /\ UNCHANGED <<well_known_url, getCount, openClients, loop>>
       ELSE /\ console' = console \o <<"configuration", "discovering">>
            /\ well_known_url' = WellKnownUrl(auth_server)
            /\ loop' = "open"
            /\ openClients' = openClients + 1
            /\ getCount' = getCount + 1
            /\ pc' = "get"
            /\ UNCHANGED <<outcome, exitCode, exc>>
    /\ UNCHANGED <<inputs, redirects, registration_endpoint, getResponse, registration_request,
                   postRequest, postResponse, result, report, postCount>>

\* l.40-64 and main l.175-181 for one outcome of the GET
DiscoverReturnsWith(resp) ==
    LET d == DiscoverResult(resp) IN
    /\ IsHttpUrl(well_known_url) \/ resp = RequestError
    /\ getResponse' = resp
    /\ openClients' = openClients - 1
    /\ IF d.exc # "none"
       THEN /\ console' = console \o d.out
            /\ loop' = "closed"
            /\ Exit("DiscoveryFailed", 1, d.exc)
            /\ UNCHANGED registration_endpoint
       ELSE /\ registration_endpoint' = d.ret
            /\ IF ~Truthy(d.ret)
               THEN /\ console' = console \o d.out \o <<"error_no_endpoint">>
                    /\ loop' = "closed"
                    /\ Exit(IF d.branch = "NotSupported"
                            THEN "NotSupported" ELSE "DiscoveryFailed",
                            1, "SystemExit")
               ELSE /\ console' = console \o d.out
                    /\ pc' = "discovered"
                    /\ UNCHANGED <<loop, outcome, exitCode, exc>>
    /\ UNCHANGED <<inputs, well_known_url, redirects, redirect_uri_list, registration_request, postRequest,
                   postResponse, result, report, getCount, postCount>>

(* l.40, follow_redirects=True: the answer is a redirect with a Location and
   the client sends a GET to it *)
FollowRedirect ==
    /\ pc = "get"
    /\ IsHttpUrl(well_known_url)
    /\ redirects < MaxRedirects
    /\ redirects' = redirects + 1
    /\ getCount' = getCount + 1
    /\ UNCHANGED <<inputs, well_known_url, redirect_uri_list, pc, outcome, registration_endpoint,
                   getResponse, registration_request, postRequest, postResponse,
                   result, report, console, exc, exitCode, postCount, openClients,
                   loop>>

\* a discover that sends its GET again after a connection failure
DiscoverReturns_Retry ==
    /\ pc = "get"
    /\ \E resp \in DiscoveryResponses :
          IF resp.kind = "RequestError" /\ getCount < 2
          THEN /\ getCount' = getCount + 1
               /\ UNCHANGED <<inputs, well_known_url, redirects, redirect_uri_list, pc, outcome,
                              registration_endpoint, getResponse,
                              registration_request, postRequest, postResponse,
                              result, report, console, exc, exitCode, postCount,
                              openClients, loop>>
          ELSE DiscoverReturnsWith(resp)

\* a discover that starts its GET over after every connection failure
DiscoverReturns_RetryForever ==
    /\ pc = "get"
    /\ \E resp \in DiscoveryResponses :
          IF resp.kind = "RequestError" /\ redirects > 0
          THEN /\ redirects' = 0
               /\ getCount' = 1
               /\ UNCHANGED <<inputs, well_known_url, redirect_uri_list, pc, outcome,
                              registration_endpoint, getResponse,
                              registration_request, postRequest, postResponse,
                              result, report, console, exc, exitCode, postCount,
                              openClients, loop>>
          ELSE DiscoverReturnsWith(resp)

(* l.40-64 and main l.175-181: the GET completes, discover returns, main
   tests the value *)
DiscoverReturns ==
    /\ pc = "get"
    /\ \E resp \in DiscoveryResponses : DiscoverReturnsWith(resp)

(* main l.184-186 and register_client l.79-91: the request body is built and
   printed, the client is opened *)
RegisterClient ==
    /\ pc = "discovered"
    /\ registration_request' = RegistrationRequest(client_name, redirect_uri_list)
    /\ console' = console \o <<"registering", "registration_request">>
    /\ openClients' = openClients + 1
    /\ pc' = "register"
    /\ UNCHANGED <<inputs, well_known_url, redirects, redirect_uri_list, outcome, registration_endpoint,
                   getResponse, postRequest, postResponse, result, report, exc,
                   exitCode, getCount, postCount, loop>>

\* a main without its try/finally: the TypeError leaves the loop open
ClientPost_NoFinally ==
    /\ pc = "register"
    /\ IF registration_endpoint.type # "string"
       THEN /\ openClients' = openClients - 1
            /\ Exit("RegistrationFailed", 1, "TypeError")
            /\ UNCHANGED <<postRequest, postCount, loop>>
       ELSE /\ postRequest' = [url |-> registration_endpoint.v,
                               json |-> registration_request,
                               content_type |-> "application/json"]
            /\ postCount' = postCount + 1
            /\ pc' = "post"
            /\ UNCHANGED <<openClients, loop, outcome, exitCode, exc>>
    /\ UNCHANGED <<inputs, well_known_url, redirects, redirect_uri_list,
                   registration_endpoint, getResponse, registration_request,
                   postResponse, result, report, console, getCount>>

(* l.93-97: client.post; a URL that is not a string raises TypeError, which
   no handler of register_client or main catches *)
ClientPost ==
    /\ pc = "register"
    /\ IF registration_endpoint.type # "string"
       THEN /\ openClients' = openClients - 1
            /\ loop' = "closed"
            /\ Exit("RegistrationFailed", 1, "TypeError")
            /\ UNCHANGED <<postRequest, postCount>>
       ELSE /\ postRequest' = [url |-> registration_endpoint.v,
                               json |-> registration_request,
                               content_type |-> "application/json"]
            /\ postCount' = postCount + 1
            /\ pc' = "post"
            /\ UNCHANGED <<openClients, loop, outcome, exitCode, exc>>
    /\ UNCHANGED <<inputs, well_known_url, redirects, redirect_uri_list, registration_endpoint, getResponse,
                   registration_request, postResponse, result, report, console,
                   getCount>>

\* l.99-127 and main l.188-189 for one outcome of the POST
RegisterReturnsWith(resp) ==
    LET r == RegisterResult(resp) IN
    /\ HasHttpScheme(postRequest.url) \/ resp = RequestError
    /\ postResponse' = resp
    /\ openClients' = openClients - 1
    /\ loop' = "closed"
    /\ console' = console \o r.out
    /\ report' = r.report
    /\ result' = r.ret
    /\ IF r.exc = "none"
       THEN Exit("Registered", 0, "none")
       ELSE Exit("RegistrationFailed", 1, r.exc)
    /\ UNCHANGED <<inputs, well_known_url, redirects, redirect_uri_list, registration_endpoint, getResponse,
                   registration_request, postRequest, getCount, postCount>>

\* a main that calls register_client again after a connection failure
RegisterReturns_Retry ==
    /\ pc = "post"
    /\ \E resp \in RegistrationResponses :
          IF resp.kind = "RequestError" /\ postCount < 2
          THEN /\ pc' = "discovered"
               /\ openClients' = openClients - 1
               /\ console' = console \o <<"error_connect_registration_endpoint">>
               /\ UNCHANGED <<inputs, well_known_url, redirects, redirect_uri_list, outcome,
                              registration_endpoint, getResponse,
                              registration_request, postRequest, postResponse,
                              result, report, exc, exitCode, getCount, postCount,
                              loop>>
          ELSE RegisterReturnsWith(resp)

(* l.99-127 and main l.188-189: the POST completes, register_client returns
   or exits, the loop is closed *)
RegisterReturns ==
    /\ pc = "post"
    /\ \E resp \in RegistrationResponses : RegisterReturnsWith(resp)

Next == Main \/ FollowRedirect \/ DiscoverReturns \/ RegisterClient \/ ClientPost \/ RegisterReturns

Spec == Init /\ [][Next]_vars

(* --------- the redirect-URI parsing alone, on longer inputs ------------ *)
InitParse ==
    /\ auth_server = BareHost
    /\ client_name = "My App"
    /\ redirect_uris \in StringsUpTo(ParseAlphabet, MaxParseLen)
    /\ pc = "parse"
    /\ Fresh

\* l.155 applied to the input
Parse ==
    /\ pc = "parse"
    /\ redirect_uri_list' = ParseRedirectUris(redirect_uris)
    /\ pc' = "parsed"
    /\ UNCHANGED <<inputs, well_known_url, redirects, outcome, registration_endpoint, getResponse,
                   registration_request, postRequest, postResponse, result, report,
                   console, exc, exitCode, getCount, postCount, openClients, loop>>

NextParse == Parse

SpecParse == InitParse /\ [][NextParse]_vars

(* ---- register_client called on its own, with any list of URIs ---------- *)
\* characters of the URIs of a direct call
UriAlphabet == {"a", " "}

\* a caller with a running loop calls register_client(endpoint, name, uris)
InitRegister ==
    /\ auth_server = BareHost
    /\ client_name \in ClientNames
    /\ redirect_uris = <<>>
    /\ redirect_uri_list \in StringsUpTo(StringsUpTo(UriAlphabet, MaxUriLen), MaxUris)
    /\ registration_endpoint \in {Str("https://as.example/register"), Str("/register")}
    /\ pc = "discovered"
    /\ outcome = "none"
    /\ well_known_url = <<>>
    /\ getResponse = NoResponse
    /\ registration_request = NoRegistrationRequest
    /\ postRequest = NoPost
    /\ postResponse = NoResponse
    /\ result = NoResult
    /\ report = NoReport
    /\ console = <<>>
    /\ exc = "none"
    /\ exitCode = -1
    /\ getCount = 0
    /\ redirects = 0
    /\ postCount = 0
    /\ openClients = 0
    /\ loop = "open"

NextRegister == RegisterClient \/ ClientPost \/ RegisterReturns

SpecRegister == InitRegister /\ [][NextRegister]_vars

(* ------------- the invocation when every step is taken ----------------- *)
\* main runs on, and every request issued completes with a response or a
\* transport failure
Fairness ==
    /\ WF_vars(Main)
    /\ WF_vars(DiscoverReturns)
    /\ WF_vars(RegisterClient)
    /\ WF_vars(ClientPost)
    /\ WF_vars(RegisterReturns)

FairSpec == Init /\ [][Next]_vars /\ Fairness

\* the state of the invocation in the terms of the flow
State ==
    CASE pc = "main"       -> "Start"
      [] pc = "get"        -> "Discovering"
      [] pc = "discovered" -> "Discovered"
      [] pc = "register"   -> "Registering"
      [] pc = "post"       -> "Registering"
      [] pc = "exit"       -> outcome
      [] OTHER             -> "none"

(* ======================================================================= *)
(*                              Properties                                 *)
(* ======================================================================= *)
Contains(seq, x) == \E i \in 1..Len(seq) : seq[i] = x

\* the metadata GET has completed with this kind of outcome
GetFailedToConnect == getResponse.kind = "RequestError"
GetStatusNot2xx == getResponse.kind = "response" /\ getResponse.status \notin 200..299
Get2xx == getResponse.kind = "response" /\ getResponse.status \in 200..299
GetBodyNotJson == Get2xx /\ JsonLoads(getResponse.text) = JSONDecodeError
GetObject == Get2xx /\ JsonLoads(getResponse.text).type = "object"
\* the registration_endpoint member of the metadata object received
GetEndpointMember == JsonLoads(getResponse.text).members["registration_endpoint"]
GetNoEndpointKey == GetObject /\ GetEndpointMember = Absent

(* C1: once discovery has ended in a failure or a negative outcome (the GET
   failed to connect, its final status is not 2xx, its body is not JSON, or
   the metadata object has no registration endpoint: key absent, null or
   empty), the invocation is over and the Registrar was never invoked: no
   request body was built and no POST was issued. *)
C1_DiscoveryFailureShortCircuits ==
    (\/ GetFailedToConnect
     \/ GetStatusNot2xx
     \/ GetBodyNotJson
     \/ (GetObject /\ GetEndpointMember \in {Absent, None, Str("")}))
    => /\ pc = "exit"
       /\ outcome \in {"DiscoveryFailed", "NotSupported"}
       /\ exitCode = 1
       /\ registration_request = NoRegistrationRequest
       /\ postRequest = NoPost
       /\ postCount = 0

C1_Witness ==
    /\ pc = "exit"
    /\ GetFailedToConnect
    /\ outcome = "DiscoveryFailed"
    /\ Contains(console, "error_connect_authorization_server")
    /\ postCount = 0

(* C2 as stated: at most one GET and at most one POST are issued in any
   state, and once discover has been invoked (the option was accepted)
   exactly one GET has been issued, whatever happened afterwards. *)
C2_NoRetry ==
    /\ getCount \in 0..1
    /\ postCount \in 0..1
    /\ (pc # "main" /\ outcome # "ValidationRejected") => getCount = 1

(* C2, amended: nothing is retried, but redirects are followed: at most one
   POST is issued; once discover has been invoked the GETs sent are the one
   to the well-known URL and one for each redirect followed, no more; and
   once the GET has its final outcome no further request is sent for it. *)
C2_NoRetryButRedirects ==
    /\ postCount \in 0..1
    /\ pc = "main" \/ outcome = "ValidationRejected" => getCount = 0
    /\ (pc # "main" /\ outcome # "ValidationRejected") => getCount = 1 + redirects
    /\ redirects \in 0..MaxRedirects
    /\ getResponse # NoResponse => pc # "get"

C2_Witness ==
    /\ pc = "exit"
    /\ postResponse.kind = "RequestError"
    /\ outcome = "RegistrationFailed"
    /\ redirects = 1
    /\ getCount = 2
    /\ postCount = 1

\* every character of the option is a comma or whitespace
AllBlank(s) == \A i \in 1..Len(s) : s[i] \in {","} \cup Whitespace

(* C3: an option value with no redirect URI in it (only commas and
   whitespace) is rejected with exit status 1 before any network activity:
   no GET, no POST, no client and no event loop. *)
C3_EmptyRejectedBeforeNetwork ==
    (pc # "main" /\ AllBlank(redirect_uris))
    => /\ pc = "exit"
       /\ outcome = "ValidationRejected"
       /\ exitCode = 1
       /\ getCount = 0
       /\ postCount = 0
       /\ openClients = 0
       /\ loop = "none"

C3_Witness ==
    /\ pc = "exit"
    /\ redirect_uris = <<" ", ",", " ">>
    /\ outcome = "ValidationRejected"
    /\ getCount + postCount = 0

\* the transitions of the flow as the state machine lists them
ListedTransitions ==
    { <<"Start", "Discovering">>,
      <<"Discovering", "NotSupported">>,
      <<"Discovering", "DiscoveryFailed">>,
      <<"Discovering", "Discovered">>,
      <<"Discovered", "Registering">>,
      <<"Registering", "Registered">>,
      <<"Registering", "RegistrationFailed">> }

TerminalStates ==
    {"ValidationRejected", "NotSupported", "DiscoveryFailed", "Registered",
     "RegistrationFailed"}

Rank(st) ==
    CASE st = "Start"       -> 0
      [] st = "Discovering" -> 1
      [] st = "Discovered"  -> 2
      [] st = "Registering" -> 3
      [] OTHER              -> 4

(* C4 as stated: every change of state is one of the listed transitions. *)
C4_OnlyListedTransitions ==
    [][State' # State => <<State, State'>> \in ListedTransitions]_vars

(* C4, amended: every change of state is one of the listed transitions or
   Start -> ValidationRejected; a terminal state is never left and no step
   is taken from it; no step returns to an earlier state. *)
C4_TransitionsWithValidation ==
    [][/\ State \notin TerminalStates
       /\ State' # State =>
            <<State, State'>> \in ListedTransitions \cup {<<"Start", "ValidationRejected">>}
       /\ Rank(State') >= Rank(State)]_vars

C4_Witness ==
    /\ State = "Registered"
    /\ getCount >= 1
    /\ postCount = 1
    /\ Len(console) = 7

\* the POST was answered with 201 and a body that parses
PostCreatedJson ==
    /\ postResponse.kind = "response"
    /\ postResponse.status = 201
    /\ JsonLoads(postResponse.text) # JSONDecodeError

(* C5: a POST answered with 201 and a body that parses as JSON ends in
   success, and the value register_client returns is the parsed body itself;
   the body {"client_id":"abc123"} gives a result whose client_id is
   "abc123". *)
C5_CreatedReturnsParsedBody ==
    PostCreatedJson
    => /\ outcome = "Registered"
       /\ exitCode = 0
       /\ exc = "none"
       /\ result = JsonLoads(postResponse.text)
       /\ (postResponse.text = "{\"client_id\":\"abc123\"}"
             => /\ result.members["client_id"] = Str("abc123")
                /\ \A k \in Keys \ {"client_id"} : result.members[k] = Absent)

C5_Witness ==
    /\ PostCreatedJson
    /\ postResponse.text = "{\"client_id\":\"abc123\",\"client_secret\":\"s3cret\"}"
    /\ result.members["client_id"] = Str("abc123")
    /\ result.members["client_secret"] = Str("s3cret")

(* C6: a POST answered with any status other than 201 (200 included),
   whatever its body, and a POST that fails to connect, end in
   RegistrationFailed: nothing is returned and the exit status is 1. *)
C6_Non201IsFatal ==
    (\/ postResponse.kind = "RequestError"
     \/ (postResponse.kind = "response" /\ postResponse.status # 201))
    => /\ pc = "exit"
       /\ outcome = "RegistrationFailed"
       /\ result = NoResult
       /\ exc # "none"
       /\ exitCode = 1

C6_Witness ==
    /\ postResponse.kind = "response"
    /\ postResponse.status = 200
    /\ postResponse.text = "{\"client_id\":\"abc123\"}"
    /\ outcome = "RegistrationFailed"
    /\ exitCode = 1

\* the lines discover prints when it fails
DiscoverErrorLines ==
    {"error_connect_authorization_server", "error_retrieve_metadata_http_status",
     "error_invalid_json_authorization_server"}

\* discover has returned after one of its three handled errors
DiscoverHandledError ==
    pc # "get" /\ (GetFailedToConnect \/ GetStatusNot2xx \/ GetBodyNotJson)

(* C7 as stated: a metadata object without the key gives NotSupported and no
   error, and the value discover returns for it differs from the value it
   returns after each discovery error. *)
C7_NotSupportedDistinctReturn ==
    /\ GetNoEndpointKey => outcome = "NotSupported"
    /\ DiscoverHandledError
         => registration_endpoint # DiscoverResult(Response(200, "{}")).ret

(* C7, amended: a metadata object without the key makes discover print a
   warning and no error line and return None without raising; after each
   discovery error discover returns the same None, so the caller tells the
   two apart by the printed line only, never by the returned value. *)
C7_NotSupportedSameReturn ==
    /\ GetNoEndpointKey
         => /\ outcome = "NotSupported"
            /\ registration_endpoint = None
            /\ exc = "SystemExit"
            /\ Contains(console, "warning_not_supported")
            /\ \A l \in DiscoverErrorLines : ~Contains(console, l)
    /\ DiscoverHandledError
         => /\ outcome = "DiscoveryFailed"
            /\ registration_endpoint = None
            /\ exc = "SystemExit"
            /\ ~Contains(console, "warning_not_supported")
            /\ \E l \in DiscoverErrorLines : Contains(console, l)

C7_Witness ==
    /\ pc = "exit"
    /\ getResponse = Response(200, "{\"issuer\":\"https://as.example\"}")
    /\ outcome = "NotSupported"
    /\ registration_endpoint = None

(* C8: when the metadata object has a non-empty string registration_endpoint,
   discover returns exactly that string, and the POST that follows is sent to
   that same string. *)
C8_EndpointReturnedUnmodified ==
    (/\ pc # "get"
     /\ GetObject
     /\ GetEndpointMember.type = "string"
     /\ GetEndpointMember.v # "")
    => /\ registration_endpoint = GetEndpointMember
       /\ outcome \notin {"NotSupported", "DiscoveryFailed"}
       /\ pc \in {"post", "exit"} => /\ postCount = 1
                                     /\ postRequest.url = GetEndpointMember.v

C8_Witness ==
    /\ pc = "exit"
    /\ getResponse.text = "{\"registration_endpoint\":\"/register\"}"
    /\ registration_endpoint = Str("/register")
    /\ postRequest.url = "/register"

\* positions of the commas of s
Commas(s) == {i \in 1..Len(s) : s[i] = ","}
\* position of the k-th comma; 0 before the first and Len(s)+1 after the last
NthComma(s, k) ==
    IF k = 0 THEN 0
    ELSE IF k = Cardinality(Commas(s)) + 1 THEN Len(s) + 1
    ELSE CHOOSE i \in Commas(s) : Cardinality({j \in Commas(s) : j < i}) = k - 1
\* positions of the characters of the k-th entry that are not whitespace
Solid(s, k) ==
    {i \in (NthComma(s, k - 1) + 1)..(NthComma(s, k) - 1) : s[i] \notin Whitespace}
SetMin(S) == CHOOSE x \in S : \A y \in S : x <= y
SetMax(S) == CHOOSE x \in S : \A y \in S : x >= y
\* entries that are not blank
NonBlank(s) == {k \in 1..(Cardinality(Commas(s)) + 1) : Solid(s, k) # {}}
\* the reference result: the non-blank entries, trimmed, in their order
RefParse(s) ==
    [j \in 1..Cardinality(NonBlank(s)) |->
        LET k == CHOOSE n \in NonBlank(s) :
                    Cardinality({m \in NonBlank(s) : m < n}) = j - 1
        IN  SubSeq(s, SetMin(Solid(s, k)), SetMax(Solid(s, k)))]

(* C9: the parsed list is the reference result: the entries between the
   commas, each without its leading and trailing whitespace, the blank ones
   left out, the others in their original order, duplicates kept. *)
C9_ParseMatchesReference ==
    pc \notin {"main", "parse"} => redirect_uri_list = RefParse(redirect_uris)

C9_Witness ==
    /\ pc = "parsed"
    /\ redirect_uris = <<"b", ",", " ", "a">>
    /\ redirect_uri_list = << <<"b">>, <<"a">> >>

(* C10: every request body built, and every one sent, has grant_types =
   ["authorization_code"], response_types = ["code"] and
   token_endpoint_auth_method = "client_secret_basic", and carries the
   caller's name and URIs beside them. *)
C10_FixedFields ==
    /\ pc \in {"register", "post"} \/ postCount > 0
         => /\ registration_request.grant_types = <<"authorization_code">>
            /\ registration_request.response_types = <<"code">>
            /\ registration_request.token_endpoint_auth_method = "client_secret_basic"
            /\ registration_request.client_name = client_name
    /\ postCount > 0
         => /\ postRequest.json = registration_request
            /\ postRequest.json.grant_types = <<"authorization_code">>
            /\ postRequest.json.response_types = <<"code">>
            /\ postRequest.json.token_endpoint_auth_method = "client_secret_basic"

C10_Witness ==
    /\ postCount = 1
    /\ client_name = ""
    /\ auth_server = HttpsHost
    /\ Len(postRequest.json.redirect_uris) = 2
    /\ postRequest.json.token_endpoint_auth_method = "client_secret_basic"

\* s begins with the characters of prefix
StartsWith(s, prefix) ==
    Len(s) >= Len(prefix) /\ SubSeq(s, 1, Len(prefix)) = prefix

SchemeSeparator == <<":", "/", "/">>
\* the identifier is written with a scheme: "<scheme>://..."
WrittenWithScheme(s) ==
    \E i \in 2..Len(s) :
        /\ StartsWith(SubSeq(s, i, Len(s)), SchemeSeparator)
        /\ \A j \in 1..(i - 1) : s[j] \in SchemeChars
\* the scheme an identifier is written with
WrittenScheme(s) ==
    SubSeq(s, 1, (CHOOSE i \in 2..Len(s) :
                     StartsWith(SubSeq(s, i, Len(s)), SchemeSeparator)) - 1)

(* C11: once discover has computed the URL of its GET, an identifier written
   without a scheme (a bare host, host/path or host:port) has given a URL
   that starts with "https://", and an identifier written with a scheme has
   given a URL with that same scheme. *)
C11_SchemelessUsesHttps ==
    (pc \notin {"main", "parse"} /\ outcome # "ValidationRejected")
    => /\ ~WrittenWithScheme(auth_server)
            => StartsWith(well_known_url, Https \o SchemeSeparator)
       /\ WrittenWithScheme(auth_server)
            => StartsWith(well_known_url,
                          WrittenScheme(auth_server) \o SchemeSeparator)

(* C12: the process ends with exit status 0 exactly when it ends in
   Registered, which is exactly when the POST was answered 201 with a body
   that parses; then the parsed body was returned and printed. Every other
   end (validation, NotSupported, discovery failure, registration failure)
   has exit status 1 and returns nothing; a running process has no status. *)
C12_SuccessIffRegistered ==
    /\ pc # "exit" => exitCode = -1 /\ outcome = "none"
    /\ pc = "exit" =>
          /\ outcome \in TerminalStates
          /\ exitCode \in {0, 1}
          /\ exitCode = 0 <=> outcome = "Registered"
          /\ outcome = "Registered" <=> PostCreatedJson
          /\ exitCode = 0 => /\ exc = "none"
                             /\ result = JsonLoads(postResponse.text)
                             /\ Contains(console, "registration_response")
          /\ exitCode = 1 => /\ exc # "none"
                             /\ result = NoResult
                             /\ ~Contains(console, "client_registered")

C12_Witness ==
    /\ pc = "exit"
    /\ outcome = "RegistrationFailed"
    /\ postResponse = Response(400, "oops")
    /\ exitCode = 1
    /\ result = NoResult

(* C13: at most one client is open at any time; when the process has ended,
   on success and on every error path, no client is open and the event loop,
   if main created one, is closed (a rejected option ends the process before
   the loop exists); while a request is in flight exactly one client is
   open. *)
C13_ResourcesReleased ==
    /\ openClients \in 0..1
    /\ pc \in {"get", "register", "post"} => openClients = 1 /\ loop = "open"
    /\ pc = "discovered" => openClients = 0 /\ loop = "open"
    /\ pc = "exit" =>
          /\ openClients = 0
          /\ loop # "open"
          /\ outcome # "ValidationRejected" => loop = "closed"

C13_Witness ==
    /\ pc = "exit"
    /\ exc = "TypeError"
    /\ outcome = "RegistrationFailed"
    /\ openClients = 0
    /\ loop = "closed"

(* C15: a metadata object whose registration_endpoint is absent, empty or
   not a string (number, boolean, list, object, null) ends discovery in
   NotSupported, with no request body built and no POST; only a non-empty
   string is taken for an endpoint. *)
C15_OnlyNonEmptyStringIsEndpoint ==
    (/\ pc # "get"
     /\ GetObject
     /\ ~(GetEndpointMember.type = "string" /\ GetEndpointMember.v # ""))
    => /\ pc = "exit"
       /\ outcome = "NotSupported"
       /\ registration_endpoint = None
       /\ registration_request = NoRegistrationRequest
       /\ postCount = 0

(* C16: a GET whose final status is not 2xx ends discovery with the HTTP
   status error and no endpoint, whatever its body, even one that holds a
   registration_endpoint: the body is never parsed, no metadata is printed
   and nothing is registered. *)
C16_StatusBeforeBody ==
    GetStatusNot2xx
    => /\ pc = "exit"
       /\ outcome = "DiscoveryFailed"
       /\ exc = "SystemExit"
       /\ registration_endpoint = None
       /\ console = <<"configuration", "discovering",
                      "error_retrieve_metadata_http_status", "error_no_endpoint">>
       /\ postCount = 0

C16_Witness ==
    /\ pc = "exit"
    /\ getResponse =
          Response(304, "{\"registration_endpoint\":\"https://as.example/register\"}")
    /\ registration_endpoint = None
    /\ ~Contains(console, "metadata_retrieved")

\* the POST was answered with a status other than 201
PostNotCreated == postResponse.kind = "response" /\ postResponse.status # 201
\* the error member of the answer, or the default
PostErrorOr(key, default) ==
    IF JsonLoads(postResponse.text).members[key] = Absent
    THEN Str(default)
    ELSE JsonLoads(postResponse.text).members[key]

(* C17: after a POST answered with a status other than 201, a body that
   parses as JSON, of any JSON type, is reported with the status, its error
   member or "unknown_error" and its error_description member or "No
   description provided"; a body that does not parse is reported with the
   status and the raw text. *)
C17_ErrorReported ==
    PostNotCreated
    => IF JsonLoads(postResponse.text) = JSONDecodeError
       THEN /\ report.status = postResponse.status
            /\ report.raw = postResponse.text
            /\ Contains(console, "registration_failed_http")
       ELSE /\ report.status = postResponse.status
            /\ report.error = PostErrorOr("error", "unknown_error")
            /\ report.error_description =
                  PostErrorOr("error_description", "No description provided")
            /\ Contains(console, "registration_failed_error")

(* C18: a POST answered 201 with a body that does not parse as JSON is not a
   success: nothing is returned, the invalid-JSON error is printed and not
   the success line, and the process ends in RegistrationFailed with exit
   status 1. *)
C18_CreatedInvalidJsonFails ==
    (/\ postResponse.kind = "response"
     /\ postResponse.status = 201
     /\ JsonLoads(postResponse.text) = JSONDecodeError)
    => /\ pc = "exit"
       /\ outcome = "RegistrationFailed"
       /\ exitCode = 1
       /\ exc = "SystemExit"
       /\ result = NoResult
       /\ Contains(console, "error_invalid_json_registration_endpoint")
       /\ ~Contains(console, "client_registered")

C18_Witness ==
    /\ pc = "exit"
    /\ postResponse = Response(201, "oops")
    /\ outcome = "RegistrationFailed"
    /\ exitCode = 1

(* C14 as stated: register_client, called with a list of URIs, strips each
   and drops the blank ones, and when none is left it fails with a
   validation error before any POST. *)
C14_RegistrarValidates ==
    pc \in {"post", "exit"}
    => /\ StripNonBlank(redirect_uri_list) = <<>>
            => postCount = 0 /\ outcome = "ValidationRejected"
       /\ postCount > 0
            => postRequest.json.redirect_uris = StripNonBlank(redirect_uri_list)

(* C14, amended: register_client neither strips nor drops nor validates: the
   request body holds the list of URIs exactly as it was passed, and the
   POST is issued with it even when the list is empty or all blank; it never
   ends in a validation error. *)
C14_RegistrarSendsAsGiven ==
    /\ pc \in {"register", "post", "exit"}
         => registration_request.redirect_uris = redirect_uri_list
    /\ pc \in {"post", "exit"}
         => /\ postCount = 1
            /\ postRequest.json.redirect_uris = redirect_uri_list
    /\ outcome # "ValidationRejected"

C14_Witness ==
    /\ pc = "exit"
    /\ redirect_uri_list = << <<" ">>, <<>> >>
    /\ postCount = 1
    /\ postRequest.json.redirect_uris = << <<" ">>, <<>> >>

(* C19: when main runs on and every request issued completes, the invocation
   reaches a terminal state (validation rejected, NotSupported,
   DiscoveryFailed, Registered or RegistrationFailed) and stays in that one
   state for good. *)
C19_EventuallyTerminal ==
    \E t \in TerminalStates : <>[](pc = "exit" /\ outcome = t)

C19_Witness ==
    /\ pc = "exit"
    /\ outcome = "Registered"
    /\ redirects = MaxRedirects
    /\ getCount = MaxRedirects + 1

====
